---- MODULE Spec2Model ----
(***************************************************************************)
(* State-machine model of src/app.py (QuizVerse): the four tables of the   *)
(* SQLite database, the wall clock, and the HTTP requests in flight.  The  *)
(* development server handles requests in threads, so a handler that does  *)
(* several database round trips is modelled as several steps that may      *)
(* interleave with the steps of another request; a step is the reads up to *)
(* the handler's next commit, or one transaction commit.                   *)
(***************************************************************************)
EXTENDS Integers, Sequences, FiniteSets, Bags, TLC

\* ---- bounds of the model ------------------------------------------------
MaxQuizzes == 1
MaxQuestions == 2
\* addQuestion is admitted while fewer than MaxManual question ids are taken.
MaxManual == 1
\* The longest row sequence a bulkImport carries.
MaxRows == 2
MaxAttempts == 2
MaxLogs == 2
\* With every operation in play (Spec), events are recorded while at most
\* MaxLogsSpec log ids are taken.
MaxLogsSpec == 1
MaxTime == 1
\* The clock's end where an exam is followed past its closing time.
MaxClock == 2

\* ---- fixed universe -----------------------------------------------------
Teachers == {"t1", "t2"}
Students == {"s1"}
Users == Teachers \cup Students
\* One request per worker thread can be in flight.
Workers == {"w1", "w2"}

\* SQL NULL of the nullable integer / datetime columns.
NULL == -1

\* User.role
role(u) == IF u \in Teachers THEN "teacher" ELSE "student"

VARIABLES
    quizzes,    \* table quiz
    questions,  \* table question
    attempts,   \* table attempt
    logs,       \* table proctor_log
    now,        \* the clock read by datetime.utcnow() / datetime.now(utc)
    req,        \* the bag of requests in flight
    resp,       \* the response most recently returned to a client
    startUtc,   \* history: the UTC instant each quiz was asked to start at
    deleted     \* history: ids whose quiz was deleted and not created again

vars == <<quizzes, questions, attempts, logs, now, req, resp, startUtc, deleted>>
db == <<quizzes, questions, attempts, logs, startUtc, deleted>>

Max(S) == CHOOSE x \in S : \A y \in S : y <= x

\* Integer primary key on SQLite: a rowid alias without AUTOINCREMENT, so a
\* new row gets max(rowid)+1 and the id of a deleted last row is reused.
NextId(rows) == IF rows = {} THEN 1 ELSE Max({x.id : x \in rows}) + 1

\* ---- responses ----------------------------------------------------------
\* The body of a response; answers echoes the answers map of the submit
\* request the response answers, rows the rows of the import request, and
\* eventOk whether the recordEvent payload had both its keys.
NoAnswers == [i \in 1..MaxQuestions |-> "-"]
NoBody == [questions |-> {}, results |-> {}, proctorLogs |-> {},
           score |-> NULL, totalQuestions |-> NULL, attemptId |-> NULL,
           answers |-> NoAnswers, quizzes |-> {}, addedCount |-> NULL,
           rows |-> <<>>, eventOk |-> FALSE]

Reply(op, u, q, status, error, body) ==
    [op |-> op, user |-> u, quiz_id |-> q, status |-> status,
     error |-> error, body |-> body]

NoResp == Reply("none", "none", 0, 0, "", NoBody)

\* ---- requests in flight -------------------------------------------------
\* A request between two of its steps: the handler's position and locals.
\* Threads are interchangeable, so the requests in flight form a bag.
Request(op, pc, u, q) ==
    [op |-> op, pc |-> pc, user |-> u, quiz_id |-> q,
     start_time |-> 0, attempt |-> 0, kq |-> {}, ka |-> {}, kl |-> {}]

Live == BagToSet(req)
FreeWorker == BagCardinality(req) < Cardinality(Workers)
Spawn(x) == req (+) SetToBag({x})
Retire(x) == req (-) SetToBag({x})
Advance(x, y) == (req (-) SetToBag({x})) (+) SetToBag({y})
InFlight(op) ==
    BagCardinality([x \in {y \in Live : y.op = op} |-> req[x]])

\* ---- createQuiz: POST /api/quizzes --------------------------------------
\* A startTime as the client sends it: unparsable, or a wall-clock reading
\* with a UTC offset ("...T01:00+01:00"; 'Z' and no offset are offset 0).
\* The instants denoted lie in 0..MaxTime.
StartTimeInputs ==
    {[ok |-> FALSE, wall |-> 0, off |-> 0]} \cup
    {st \in [ok : {TRUE}, wall : 0..MaxTime, off : 0..1] : st.wall - st.off >= 0}

\* durationMinutes as the client sends it: int() fails, or an integer.
DurationInputs ==
    {[ok |-> FALSE, val |-> 0], [ok |-> TRUE, val |-> 0], [ok |-> TRUE, val |-> 1]}

\* The instant a parsed startTime denotes.
UtcInstant(st) == st.wall - st.off

\* What the DateTime column keeps of the parsed datetime: SQLite has no
\* timezone-aware type and the column stores the wall-clock fields only, so
\* the row read back is naive and the offset is gone.
StoredDateTime(st) == st.wall

\* The createQuiz requests tried: each varies one of requester, startTime and
\* durationMinutes from a plain request by teacher t1.  Teachers are
\* interchangeable: t2 stands for a teacher who is not the owner.
PlainStart == [ok |-> TRUE, wall |-> 0, off |-> 0]
PlainDuration == [ok |-> TRUE, val |-> 1]
CreateInputs ==
    {[user |-> u, startTime |-> PlainStart, durationMinutes |-> PlainDuration] :
        u \in Users \ {"t2"}} \cup
    {[user |-> "t1", startTime |-> st, durationMinutes |-> PlainDuration] :
        st \in StartTimeInputs} \cup
    {[user |-> "t1", startTime |-> PlainStart, durationMinutes |-> d] :
        d \in DurationInputs}

manage_quizzes_POST(u, st, dur) ==
    /\ resp = NoResp
    /\ UNCHANGED <<questions, attempts, logs, now, req>>
    /\ IF role(u) # "teacher"
       THEN /\ resp' = Reply("createQuiz", u, 0, 403, "Not authorized", NoBody)
            /\ UNCHANGED <<quizzes, startUtc, deleted>>
       ELSE IF ~st.ok \/ ~dur.ok
       THEN /\ resp' = Reply("createQuiz", u, 0, 400, "Error creating quiz", NoBody)
            /\ UNCHANGED <<quizzes, startUtc, deleted>>
       ELSE /\ NextId(quizzes) <= MaxQuizzes
            /\ quizzes' = quizzes \cup
                 {[id |-> NextId(quizzes), teacher_id |-> u,
                   start_time |-> StoredDateTime(st),
                   duration_minutes |-> dur.val]}
            /\ startUtc' = [startUtc EXCEPT ![NextId(quizzes)] = UtcInstant(st)]
            /\ deleted' = deleted \ {NextId(quizzes)}
            /\ resp' = Reply("createQuiz", u, NextId(quizzes), 201, "", NoBody)

\* ---- addQuestion: POST /api/quizzes/<id>/questions/manual ---------------
\* correctAnswer is stored as sent; nothing restricts it to A-D.
CorrectInputs == {"A", "a", ""}
QuestionInputs ==
    [fields : BOOLEAN, options : BOOLEAN, correctAnswer : CorrectInputs]

TopId(rows) == IF rows = {} THEN 0 ELSE Max({x.id : x \in rows})

\* Step 1: role check, quiz lookup, ownership check.
add_question_manual_lookup(u, q) ==
    /\ resp = NoResp
    /\ FreeWorker
    /\ UNCHANGED <<db, now>>
    /\ IF role(u) # "teacher"
       THEN /\ resp' = Reply("addQuestion", u, q, 403, "Not authorized", NoBody)
            /\ UNCHANGED req
       ELSE IF \A z \in quizzes : z.id = q => z.teacher_id # u
       THEN /\ resp' = Reply("addQuestion", u, q, 404,
                             "Quiz not found or not authorized", NoBody)
            /\ UNCHANGED req
       ELSE /\ TopId(questions) + InFlight("addQuestion") < MaxManual
            /\ req' = Spawn(Request("addQuestion", "insert", u, q))
            /\ UNCHANGED resp

\* Step 2: payload validation, INSERT and COMMIT.
add_question_manual_insert(r, data) ==
    /\ resp = NoResp
    /\ r.op = "addQuestion" /\ r.pc = "insert"
    /\ req' = Retire(r)
    /\ UNCHANGED <<quizzes, attempts, logs, startUtc, deleted, now>>
    /\ IF ~data.fields \/ ~data.options
       THEN /\ resp' = Reply("addQuestion", r.user, r.quiz_id, 400,
                             "Error adding question", NoBody)
            /\ UNCHANGED questions
       ELSE /\ questions' = questions \cup
                 {[id |-> NextId(questions), quiz_id |-> r.quiz_id,
                   correct_answer |-> data.correctAnswer]}
            /\ resp' = Reply("addQuestion", r.user, r.quiz_id, 201, "",
                             NoBody)

\* ---- bulkImport: POST /api/quizzes/<id>/questions/csv -------------------
\* A CSV row as DictReader yields it: whether it has all six columns, and
\* its correct_answer cell.
RowInputs == [columns : BOOLEAN, correct_answer : {"A", "a", "E"}]
RowSeqs == UNION {[1..n -> RowInputs] : n \in 0..MaxRows}

\* The upload: no file part or an empty file name, a name that does not end
\* in .csv, bytes that are not UTF-8, or a CSV file with its rows.
FileInputs ==
    {[file |-> f, rows |-> <<>>] : f \in {"missing", "not_csv", "not_utf8"}}
        \cup {[file |-> "csv", rows |-> rs] : rs \in RowSeqs}

\* str.upper() on the cells tried.
Upper(c) == IF c = "a" THEN "A" ELSE c

\* Mutant: a bad row leaves the rows added before it in the session, and
\* they are committed.
RECURSIVE csv_loop_KeepsPending(_, _)
csv_loop_KeepsPending(rows, pending) ==
    IF rows = <<>> THEN [ok |-> TRUE, pending |-> pending]
    ELSE IF ~Head(rows).columns
              \/ Upper(Head(rows).correct_answer) \notin {"A", "B", "C", "D"}
    THEN [ok |-> FALSE, pending |-> pending]
    ELSE csv_loop_KeepsPending(Tail(rows),
                               Append(pending, Upper(Head(rows).correct_answer)))

\* The loop over the rows: each valid row adds a question, with the
\* upper-cased key, to the session; the first bad row raises, and the
\* rollback empties the session.
RECURSIVE csv_loop(_, _)
csv_loop(rows, pending) ==
    IF rows = <<>> THEN [ok |-> TRUE, pending |-> pending]
    ELSE IF ~Head(rows).columns
              \/ Upper(Head(rows).correct_answer) \notin {"A", "B", "C", "D"}
    THEN [ok |-> FALSE, pending |-> <<>>]
    ELSE csv_loop(Tail(rows), Append(pending, Upper(Head(rows).correct_answer)))

\* Step 1: role check, quiz lookup, ownership check.
add_questions_csv_lookup(u, q) ==
    /\ resp = NoResp
    /\ FreeWorker
    /\ UNCHANGED <<db, now>>
    /\ IF role(u) # "teacher"
       THEN /\ resp' = Reply("bulkImport", u, q, 403, "Not authorized", NoBody)
            /\ UNCHANGED req
       ELSE IF \A z \in quizzes : z.id = q => z.teacher_id # u
       THEN /\ resp' = Reply("bulkImport", u, q, 404,
                             "Quiz not found or not authorized", NoBody)
            /\ UNCHANGED req
       ELSE /\ req' = Spawn(Request("bulkImport", "import", u, q))
            /\ UNCHANGED resp

\* Step 2: the file checks, the loop over the rows, and the COMMIT, which
\* inserts the session's questions in one transaction.
add_questions_csv_import(r, upload) ==
    /\ resp = NoResp
    /\ r.op = "bulkImport" /\ r.pc = "import"
    /\ req' = Retire(r)
    /\ UNCHANGED <<quizzes, attempts, logs, startUtc, deleted, now>>
    /\ IF upload.file = "missing"
       THEN /\ resp' = Reply("bulkImport", r.user, r.quiz_id, 400,
                             "No file part", NoBody)
            /\ UNCHANGED questions
       ELSE IF upload.file = "not_csv"
       THEN /\ resp' = Reply("bulkImport", r.user, r.quiz_id, 400,
                             "Invalid file type. Must be .csv", NoBody)
            /\ UNCHANGED questions
       ELSE IF upload.file = "not_utf8"
       THEN /\ resp' = Reply("bulkImport", r.user, r.quiz_id, 400,
                             "Error processing CSV: not UTF-8", NoBody)
            /\ UNCHANGED questions
       ELSE LET done == csv_loop(upload.rows, <<>>)
                n == Len(done.pending)
            IN /\ TopId(questions) + InFlight("addQuestion") + n <= MaxQuestions
               /\ questions' = questions \cup
                    {[id |-> TopId(questions) + i, quiz_id |-> r.quiz_id,
                      correct_answer |-> done.pending[i]] : i \in 1..n}
               /\ resp' = IF done.ok
                          THEN Reply("bulkImport", r.user, r.quiz_id, 201, "",
                                     [NoBody EXCEPT !.addedCount = n,
                                                    !.rows = upload.rows])
                          ELSE Reply("bulkImport", r.user, r.quiz_id, 400,
                                     "Error processing CSV",
                                     [NoBody EXCEPT !.rows = upload.rows])

\* ---- getQuizDetail: GET /api/quizzes/<id> -------------------------------
\* Prompt text and option texts are carried as opaque values.
QuestionDetailView(x) ==
    [id |-> x.id, text |-> "text", options |-> "options",
     correctAnswer |-> x.correct_answer]

ResultView(a) ==
    [student |-> a.student_id, score |-> a.score,
     totalQuestions |-> a.total_questions, finishedAt |-> a.finished_at]

LogView(l) ==
    [student |-> l.student_id, eventType |-> l.event_type,
     questionNumber |-> l.question_number, timestamp |-> l.timestamp]

manage_quiz_details_GET(u, q) ==
    /\ resp = NoResp
    /\ UNCHANGED <<db, now, req>>
    /\ IF \A z \in quizzes : z.id # q
       THEN resp' = Reply("getQuizDetail", u, q, 404, "Quiz not found", NoBody)
       ELSE IF role(u) = "teacher" /\ \E z \in quizzes : z.id = q /\ z.teacher_id # u
       THEN resp' = Reply("getQuizDetail", u, q, 403,
                          "Not authorized to view this quiz", NoBody)
       ELSE resp' = Reply("getQuizDetail", u, q, 200, "",
              [NoBody EXCEPT
                 !.questions = {QuestionDetailView(x) :
                                  x \in {y \in questions : y.quiz_id = q}},
                 !.results = {ResultView(a) :
                                  a \in {b \in attempts : b.quiz_id = q}},
                 !.proctorLogs = {LogView(l) :
                                  l \in {m \in logs : m.quiz_id = q}}])

\* ---- deleteQuiz: DELETE /api/quizzes/<id> -------------------------------
\* Step 1: quiz lookup, role and ownership checks, and session.delete(quiz),
\* which loads the three child collections the cascade will delete.
manage_quiz_details_DELETE_load(u, q) ==
    /\ resp = NoResp
    /\ FreeWorker
    /\ UNCHANGED <<db, now>>
    /\ IF \A z \in quizzes : z.id # q
       THEN /\ resp' = Reply("deleteQuiz", u, q, 404, "Quiz not found", NoBody)
            /\ UNCHANGED req
       ELSE IF role(u) # "teacher"
       THEN /\ resp' = Reply("deleteQuiz", u, q, 403, "Not authorized", NoBody)
            /\ UNCHANGED req
       ELSE IF \E z \in quizzes : z.id = q /\ z.teacher_id # u
       THEN /\ resp' = Reply("deleteQuiz", u, q, 403,
                             "Not authorized to delete this quiz", NoBody)
            /\ UNCHANGED req
       ELSE /\ req' = Spawn([Request("deleteQuiz", "commit", u, q) EXCEPT
                               !.kq = {x.id : x \in {y \in questions : y.quiz_id = q}},
                               !.ka = {x.id : x \in {y \in attempts : y.quiz_id = q}},
                               !.kl = {x.id : x \in {y \in logs : y.quiz_id = q}}])
            /\ UNCHANGED resp

\* Step 2: COMMIT. The flush deletes, by primary key, the children loaded in
\* step 1 and then the quiz row; a key that matches no row is only warned
\* about.  Rows inserted after step 1 are not touched.
manage_quiz_details_DELETE_commit(r) ==
    /\ resp = NoResp
    /\ r.op = "deleteQuiz" /\ r.pc = "commit"
    /\ req' = Retire(r)
    /\ UNCHANGED now
    /\ questions' = {x \in questions : x.id \notin r.kq}
    /\ attempts' = {x \in attempts : x.id \notin r.ka}
    /\ logs' = {x \in logs : x.id \notin r.kl}
    /\ quizzes' = {z \in quizzes : z.id # r.quiz_id}
    /\ startUtc' = [startUtc EXCEPT ![r.quiz_id] = 0]
    /\ deleted' = deleted \cup {r.quiz_id}
    /\ resp' = Reply("deleteQuiz", r.user, r.quiz_id, 200, "", NoBody)

\* ---- listStudentQuizzes: GET /api/student/quizzes -----------------------
\* The attempt summary of a quiz entry; present is false for 'attempt': None.
NoAttemptView ==
    [present |-> FALSE, score |-> NULL, totalQuestions |-> NULL,
     finished |-> FALSE]
AttemptView(a) ==
    [present |-> TRUE, score |-> a.score,
     totalQuestions |-> a.total_questions, finished |-> a.finished]

\* One entry per quiz, with the requester's first attempt (lowest id).
StudentQuizView(z, u) ==
    LET mine == {a \in attempts : a.quiz_id = z.id /\ a.student_id = u}
    IN [id |-> z.id, startTime |-> z.start_time,
        durationMinutes |-> z.duration_minutes,
        questionCount |-> Cardinality({x \in questions : x.quiz_id = z.id}),
        attempt |-> IF mine = {} THEN NoAttemptView
                    ELSE AttemptView(CHOOSE a \in mine :
                                        \A b \in mine : a.id <= b.id)]

get_student_quizzes(u) ==
    /\ resp = NoResp
    /\ UNCHANGED <<db, now, req>>
    /\ IF role(u) # "student"
       THEN resp' = Reply("listStudentQuizzes", u, 0, 403, "Not authorized",
                          NoBody)
       ELSE resp' = Reply("listStudentQuizzes", u, 0, 200, "",
              [NoBody EXCEPT
                 !.quizzes = {StudentQuizView(z, u) : z \in quizzes}])

\* ---- startAttempt: POST /api/student/quiz/<id>/start --------------------
\* Step 1: role check and quiz lookup; the loaded quiz stays in the session.
start_quiz_attempt_quiz(u, q) ==
    /\ resp = NoResp
    /\ FreeWorker
    /\ UNCHANGED <<db, now>>
    /\ IF role(u) # "student"
       THEN /\ resp' = Reply("startAttempt", u, q, 403, "Not authorized", NoBody)
            /\ UNCHANGED req
       ELSE IF \A z \in quizzes : z.id # q
       THEN /\ resp' = Reply("startAttempt", u, q, 404, "Quiz not found", NoBody)
            /\ UNCHANGED req
       ELSE /\ TopId(attempts) + InFlight("startAttempt") < MaxAttempts
            /\ \E z \in quizzes :
                 /\ z.id = q
                 /\ req' = Spawn([Request("startAttempt", "attempt", u, q) EXCEPT
                                   !.start_time = z.start_time])
            /\ UNCHANGED resp

\* Mutant: the existence check overlooks finished attempts.
AttemptsOf_UnfinishedOnly(q, u) ==
    {a \in attempts : a.quiz_id = q /\ a.student_id = u /\ ~a.finished}

\* The rows Attempt.query.filter_by(quiz_id=q, student_id=u) matches.
AttemptsOf(q, u) == {a \in attempts : a.quiz_id = q /\ a.student_id = u}

\* Step 2: the existence check.
start_quiz_attempt_attempt(r) ==
    /\ resp = NoResp
    /\ r.op = "startAttempt" /\ r.pc = "attempt"
    /\ UNCHANGED <<db, now>>
    /\ IF AttemptsOf(r.quiz_id, r.user) # {}
       THEN /\ resp' = Reply("startAttempt", r.user, r.quiz_id, 400,
                             "Quiz already attempted", NoBody)
            /\ req' = Retire(r)
       ELSE /\ req' = Advance(r, [r EXCEPT !.pc = "time"])
            /\ UNCHANGED resp

\* Step 3: datetime.utcnow() < quiz.start_time, on the stored start time.
start_quiz_attempt_time(r) ==
    /\ resp = NoResp
    /\ r.op = "startAttempt" /\ r.pc = "time"
    /\ UNCHANGED <<db, now>>
    /\ IF now < r.start_time
       THEN /\ resp' = Reply("startAttempt", r.user, r.quiz_id, 403,
                             "Quiz has not started yet", NoBody)
            /\ req' = Retire(r)
       ELSE /\ req' = Advance(r, [r EXCEPT !.pc = "insert"])
            /\ UNCHANGED resp

\* Mutant: the finished column defaults to True.
NewAttempt_BornFinished(id, q, u) ==
    [id |-> id, quiz_id |-> q, student_id |-> u, score |-> NULL,
     total_questions |-> NULL, finished |-> TRUE, finished_at |-> NULL]

\* Attempt.started_at is written here and read by no handler; it is left out.
NewAttempt(id, q, u) ==
    [id |-> id, quiz_id |-> q, student_id |-> u, score |-> NULL,
     total_questions |-> NULL, finished |-> FALSE, finished_at |-> NULL]

\* Step 4: INSERT and COMMIT of the new attempt.
start_quiz_attempt_insert(r) ==
    /\ resp = NoResp
    /\ r.op = "startAttempt" /\ r.pc = "insert"
    /\ attempts' = attempts \cup
         {NewAttempt(NextId(attempts), r.quiz_id, r.user)}
    /\ req' = Advance(r, [r EXCEPT !.pc = "respond",
                                  !.attempt = NextId(attempts)])
    /\ UNCHANGED <<quizzes, questions, logs, startUtc, deleted, now, resp>>

\* Mutant: the student's view is built like the teacher's.
StartQuestionView_WithKey(x) ==
    [id |-> x.id, text |-> "text", options |-> "options",
     correctAnswer |-> x.correct_answer]

\* The student-facing view of a question.
StartQuestionView(x) ==
    [id |-> x.id, text |-> "text", options |-> "options"]

\* Step 5: the response. The commit expired the session's objects, so quiz
\* and new_attempt are reloaded by primary key; a row that is gone raises
\* inside the try block and the handler answers 400 after the commit.
start_quiz_attempt_respond(r) ==
    /\ resp = NoResp
    /\ r.op = "startAttempt" /\ r.pc = "respond"
    /\ req' = Retire(r)
    /\ UNCHANGED <<db, now>>
    /\ IF \/ \A z \in quizzes : z.id # r.quiz_id
          \/ \A a \in attempts : a.id # r.attempt
       THEN resp' = Reply("startAttempt", r.user, r.quiz_id, 400,
                          "Error starting quiz", NoBody)
       ELSE resp' = Reply("startAttempt", r.user, r.quiz_id, 201, "",
              [NoBody EXCEPT
                 !.attemptId = r.attempt,
                 !.questions = {StartQuestionView(x) :
                      x \in {y \in questions : y.quiz_id = r.quiz_id}}])

\* ---- submitAttempt: POST /api/student/quiz/<id>/submit ------------------
\* An answers map: question id -> the option sent, "-" where the map has
\* no entry for the id.
AnswerValues == {"A", "a", "", "-"}
AnswerMaps == [1..MaxQuestions -> AnswerValues]

\* Mutant: an attempt stops being active when the quiz's time is up.
ActiveAttempts_UntilDeadline(q, u) ==
    {a \in AttemptsOf(q, u) :
        /\ ~a.finished
        /\ \A z \in quizzes :
              z.id = q => now <= z.start_time + z.duration_minutes}

\* filter_by(..., finished=False).first(): SQLite scans the table in rowid
\* order, so the first match is the one with the lowest id.
ActiveAttempts(q, u) == {a \in AttemptsOf(q, u) : ~a.finished}
FirstId(rows) == CHOOSE i \in {a.id : a \in rows} : \A a \in rows : i <= a.id

\* Step 1: role check and active-attempt lookup.
submit_quiz_attempt_lookup(u, q) ==
    /\ resp = NoResp
    /\ FreeWorker
    /\ UNCHANGED <<db, now>>
    /\ IF role(u) # "student"
       THEN /\ resp' = Reply("submitAttempt", u, q, 403, "Not authorized", NoBody)
            /\ UNCHANGED req
       ELSE IF ActiveAttempts(q, u) = {}
       THEN /\ resp' = Reply("submitAttempt", u, q, 404,
                             "No active attempt found", NoBody)
            /\ UNCHANGED req
       ELSE /\ req' = Spawn([Request("submitAttempt", "grade", u, q) EXCEPT
                               !.attempt = FirstId(ActiveAttempts(q, u))])
            /\ UNCHANGED resp

\* Mutant: one point per answer sent, whatever question id it names.
Grade_CountsAnswers(qs, answers) ==
    Cardinality({i \in DOMAIN answers : answers[i] # "-" /\ answers[i] # ""})

\* The grading loop: one point per question whose submitted answer is truthy
\* and equal to the stored correct answer.
Grade(qs, answers) ==
    Cardinality({x \in qs : /\ answers[x.id] # "-"
                            /\ answers[x.id] # ""
                            /\ answers[x.id] = x.correct_answer})

\* Step 2: the payload is read, the quiz's questions are queried and graded,
\* and the four fields are written and committed.  The flush updates the
\* attempt row by primary key (whatever its finished flag is by now); a row
\* that is gone raises StaleDataError, answered 400 after a rollback.
submit_quiz_attempt_commit(r, answers) ==
    /\ resp = NoResp
    /\ r.op = "submitAttempt" /\ r.pc = "grade"
    /\ req' = Retire(r)
    /\ UNCHANGED <<quizzes, questions, logs, startUtc, deleted, now>>
    /\ LET qs == {x \in questions : x.quiz_id = r.quiz_id}
           score == Grade(qs, answers)
           total == Cardinality(qs)
       IN IF \A a \in attempts : a.id # r.attempt
          THEN /\ resp' = Reply("submitAttempt", r.user, r.quiz_id, 400,
                                "Error submitting quiz", NoBody)
               /\ UNCHANGED attempts
          ELSE /\ attempts' =
                    {IF a.id = r.attempt
                     THEN [a EXCEPT !.score = score,
                                    !.total_questions = total,
                                    !.finished = TRUE,
                                    !.finished_at = now]
                     ELSE a : a \in attempts}
               /\ resp' = Reply("submitAttempt", r.user, r.quiz_id, 200, "",
                      [NoBody EXCEPT !.score = score,
                                     !.totalQuestions = total,
                                     !.answers = answers])

\* ---- recordEvent: POST /api/student/quiz/<id>/log -----------------------
\* A payload: both keys present with non-null values, or not.
EventInputs == [ok : BOOLEAN, eventType : {"blur"}, questionNumber : {1}]

\* Mutant: events are refused unless the pair has an unfinished attempt.
log_proctor_event_NeedsAttempt(u, q, data) ==
    /\ resp = NoResp
    /\ UNCHANGED <<quizzes, questions, attempts, startUtc, deleted, now, req>>
    /\ IF role(u) # "student"
       THEN /\ resp' = Reply("recordEvent", u, q, 403, "Not authorized", NoBody)
            /\ UNCHANGED logs
       ELSE IF ~data.ok
       THEN /\ resp' = Reply("recordEvent", u, q, 400, "Error logging event", NoBody)
            /\ UNCHANGED logs
       ELSE IF ActiveAttempts(q, u) = {}
       THEN /\ resp' = Reply("recordEvent", u, q, 400, "Error logging event",
                             [NoBody EXCEPT !.eventOk = TRUE])
            /\ UNCHANGED logs
       ELSE /\ NextId(logs) <= MaxLogs
            /\ logs' = logs \cup
                 {[id |-> NextId(logs), quiz_id |-> q, student_id |-> u,
                   event_type |-> data.eventType,
                   question_number |-> data.questionNumber,
                   timestamp |-> now]}
            /\ resp' = Reply("recordEvent", u, q, 200, "",
                             [NoBody EXCEPT !.eventOk = TRUE])

log_proctor_event(u, q, data) ==
    /\ resp = NoResp
    /\ UNCHANGED <<quizzes, questions, attempts, startUtc, deleted, now, req>>
    /\ IF role(u) # "student"
       THEN /\ resp' = Reply("recordEvent", u, q, 403, "Not authorized", NoBody)
            /\ UNCHANGED logs
       ELSE IF ~data.ok
       THEN /\ resp' = Reply("recordEvent", u, q, 400, "Error logging event", NoBody)
            /\ UNCHANGED logs
       ELSE /\ NextId(logs) <= MaxLogs
            /\ logs' = logs \cup
                 {[id |-> NextId(logs), quiz_id |-> q, student_id |-> u,
                   event_type |-> data.eventType,
                   question_number |-> data.questionNumber,
                   timestamp |-> now]}
            /\ resp' = Reply("recordEvent", u, q, 200, "",
                             [NoBody EXCEPT !.eventOk = TRUE])

\* ---- the clock ----------------------------------------------------------
Tick ==
    /\ resp = NoResp
    /\ now < MaxTime
    /\ now' = now + 1
    /\ UNCHANGED <<db, req, resp>>

\* ---- the response leaves the server ------------------------------------
\* resp holds a response from the step that produced it until it is sent;
\* sending changes nothing else, so no other step is taken in between.
Deliver ==
    /\ resp # NoResp
    /\ resp' = NoResp
    /\ UNCHANGED <<db, now, req>>

Init ==
    /\ quizzes = {}
    /\ questions = {}
    /\ attempts = {}
    /\ logs = {}
    /\ now = 0
    /\ req = EmptyBag
    /\ resp = NoResp
    /\ startUtc = [q \in 1..MaxQuizzes |-> 0]
    /\ deleted = {}

\* ---- the requests the server may be sent ---------------------------------
CreateQuiz ==
    \E c \in CreateInputs :
        manage_quizzes_POST(c.user, c.startTime, c.durationMinutes)
AddQuestionLookup ==
    \E u \in Users, q \in 1..MaxQuizzes : add_question_manual_lookup(u, q)
AddQuestionInsert ==
    \E r \in Live, data \in QuestionInputs : add_question_manual_insert(r, data)
BulkImportLookup ==
    \E u \in Users, q \in 1..MaxQuizzes : add_questions_csv_lookup(u, q)
BulkImportRows ==
    \E r \in Live, upload \in FileInputs : add_questions_csv_import(r, upload)
ListStudentQuizzes == \E u \in Users : get_student_quizzes(u)
GetQuizDetail ==
    \E u \in Users, q \in 1..MaxQuizzes : manage_quiz_details_GET(u, q)
DeleteQuizLoad ==
    \E u \in Users, q \in 1..MaxQuizzes : manage_quiz_details_DELETE_load(u, q)
DeleteQuizCommit ==
    \E r \in Live : manage_quiz_details_DELETE_commit(r)
StartAttemptQuiz ==
    \E u \in Users, q \in 1..MaxQuizzes : start_quiz_attempt_quiz(u, q)
StartAttemptCheck == \E r \in Live : start_quiz_attempt_attempt(r)
StartAttemptTime == \E r \in Live : start_quiz_attempt_time(r)
StartAttemptInsert == \E r \in Live : start_quiz_attempt_insert(r)
StartAttemptRespond == \E r \in Live : start_quiz_attempt_respond(r)
SubmitAttemptLookup ==
    \E u \in Users, q \in 1..MaxQuizzes : submit_quiz_attempt_lookup(u, q)
SubmitAttemptCommit ==
    \E r \in Live, answers \in AnswerMaps : submit_quiz_attempt_commit(r, answers)
RecordEvent ==
    \E u \in Users, q \in 1..MaxQuizzes, data \in EventInputs :
        log_proctor_event(u, q, data) /\ TopId(logs') <= MaxLogsSpec

Next ==
    \/ Tick
    \/ Deliver
    \/ CreateQuiz
    \/ AddQuestionLookup
    \/ AddQuestionInsert
    \/ GetQuizDetail
    \/ DeleteQuizLoad
    \/ DeleteQuizCommit
    \/ StartAttemptQuiz
    \/ StartAttemptCheck
    \/ StartAttemptTime
    \/ StartAttemptInsert
    \/ StartAttemptRespond
    \/ SubmitAttemptLookup
    \/ SubmitAttemptCommit
    \/ RecordEvent

Spec == Init /\ [][Next]_vars

\* ---- authoring: two teachers, their quizzes and question sets ----------
\* Plain quizzes only, created by either teacher; questions are added one
\* by one and imported.
CreateQuizByAnyone ==
    \E u \in Users : manage_quizzes_POST(u, PlainStart, PlainDuration)
RecordEventAny ==
    \E u \in Users, q \in 1..MaxQuizzes, data \in EventInputs :
        log_proctor_event(u, q, data)

NextAuthoring ==
    \/ Deliver
    \/ CreateQuizByAnyone
    \/ AddQuestionLookup
    \/ AddQuestionInsert
    \/ BulkImportLookup
    \/ BulkImportRows
    \/ GetQuizDetail
    \/ DeleteQuizLoad
    \/ DeleteQuizCommit
    \/ RecordEventAny

SpecAuthoring == Init /\ [][NextAuthoring]_vars

\* ---- the exam: one teacher's imported quiz and the student's requests ---
CreatePlainQuiz == manage_quizzes_POST("t1", PlainStart, PlainDuration)

NextExam ==
    \/ Deliver
    \/ CreatePlainQuiz
    \/ BulkImportLookup
    \/ BulkImportRows
    \/ GetQuizDetail
    \/ ListStudentQuizzes
    \/ DeleteQuizLoad
    \/ DeleteQuizCommit
    \/ StartAttemptQuiz
    \/ StartAttemptCheck
    \/ StartAttemptTime
    \/ StartAttemptInsert
    \/ StartAttemptRespond
    \/ SubmitAttemptLookup
    \/ SubmitAttemptCommit

SpecExam == Init /\ [][NextExam]_vars

\* ---- proctoring: the student's attempt and the event stream -------------
NextProctor ==
    \/ Tick
    \/ Deliver
    \/ CreatePlainQuiz
    \/ GetQuizDetail
    \/ DeleteQuizLoad
    \/ DeleteQuizCommit
    \/ StartAttemptQuiz
    \/ StartAttemptCheck
    \/ StartAttemptTime
    \/ StartAttemptInsert
    \/ StartAttemptRespond
    \/ SubmitAttemptLookup
    \/ SubmitAttemptCommit
    \/ RecordEventAny

SpecProctor == Init /\ [][NextProctor]_vars

\* ---- the attempt to its end, under fair scheduling ----------------------
\* The clock runs on past the quiz's closing time.
TickLate ==
    /\ resp = NoResp
    /\ now < MaxClock
    /\ now' = now + 1
    /\ UNCHANGED <<db, req, resp>>

NextFair ==
    \/ TickLate
    \/ Deliver
    \/ CreatePlainQuiz
    \/ DeleteQuizLoad
    \/ DeleteQuizCommit
    \/ StartAttemptQuiz
    \/ StartAttemptCheck
    \/ StartAttemptTime
    \/ StartAttemptInsert
    \/ StartAttemptRespond
    \/ SubmitAttemptLookup
    \/ SubmitAttemptCommit

\* The second step of the submitAttempt requests of u for q.
SubmitAttemptCommitOf(u, q) ==
    \E r \in Live, answers \in AnswerMaps :
        r.user = u /\ r.quiz_id = q /\ submit_quiz_attempt_commit(r, answers)

\* Every response is sent, every request in flight is run to its end by
\* its thread, and each student keeps sending submitAttempt for each quiz.
Fairness ==
    /\ WF_vars(Deliver)
    /\ SF_vars(DeleteQuizCommit)
    /\ SF_vars(StartAttemptCheck)
    /\ SF_vars(StartAttemptTime)
    /\ SF_vars(StartAttemptInsert)
    /\ SF_vars(StartAttemptRespond)
    /\ \A u \in Students, q \in 1..MaxQuizzes :
          /\ SF_vars(submit_quiz_attempt_lookup(u, q))
          /\ SF_vars(SubmitAttemptCommitOf(u, q))

SpecFair == Init /\ [][NextFair]_vars /\ Fairness

\* =========================================================================
\* Properties
\* =========================================================================
Pairs == (1..MaxQuizzes) \X Students

RowsOf(q, u) == {a \in attempts : a.quiz_id = q /\ a.student_id = u}

\* The step taken retires request x with a response, or moves it to pc.
Retires(x) == req' = req (-) SetToBag({x})
MovesTo(x, pc) == req' = (req (-) SetToBag({x})) (+) SetToBag({[x EXCEPT !.pc = pc]})
\* The step taken puts a new request for op by u on q in flight.
Admits(op, q, u) ==
    \E x \in BagToSet(req') :
        /\ x.op = op /\ x.user = u /\ x.quiz_id = q
        /\ CopiesIn(x, req') > CopiesIn(x, req)

\* C1: in every reachable state, whatever the interleaving of concurrent
\* startAttempt requests, at most one Attempt row exists for each
\* (quiz, student) pair.
C1_AtMostOneAttemptPerPair ==
    \A p \in Pairs : Cardinality(RowsOf(p[1], p[2])) <= 1

\* C2: once a pair has a finished attempt, every later submitAttempt for the
\* pair is turned away at the active-attempt lookup with 404 "No active
\* attempt found" (it never gets to grade), and changes no attempt.
C2_SubmitAfterFinishedFails ==
    [][\A p \in Pairs :
          (\E a \in RowsOf(p[1], p[2]) : a.finished) =>
              /\ ~Admits("submitAttempt", p[1], p[2])
              /\ (resp'.op = "submitAttempt" /\ resp'.quiz_id = p[1]
                    /\ resp'.user = p[2] /\ req' = req)
                   => (resp'.status = 404 /\ attempts' = attempts)]_vars

\* C3: of two concurrent submitAttempt requests on the same unfinished
\* attempt only one succeeds: a submit that answers 200 wrote an attempt
\* that was still unfinished when it committed, so a request whose attempt
\* was finished in the meantime fails.
C3_ConcurrentSubmitsOneWinner ==
    [][\A x \in Live :
          (x.op = "submitAttempt" /\ Retires(x) /\ resp'.status = 200) =>
              \E a \in attempts : a.id = x.attempt /\ ~a.finished]_vars

QuestionsOf(q) == {x \in questions : x.quiz_id = q}

\* C4: a successful submitAttempt returns and stores score = the number of
\* the quiz's questions whose id has a submitted answer equal to the correct
\* key, and total = the number of the quiz's questions at grading time.
C4_GradingResult ==
    (resp.op = "submitAttempt" /\ resp.status = 200) =>
        LET qs == QuestionsOf(resp.quiz_id)
            m == resp.body.answers
            right == {x \in qs : m[x.id] # "-" /\ m[x.id] = x.correct_answer}
        IN /\ resp.body.score = Cardinality(right)
           /\ resp.body.totalQuestions = Cardinality(qs)
           /\ \E a \in RowsOf(resp.quiz_id, resp.user) :
                 /\ a.finished
                 /\ a.score = Cardinality(right)
                 /\ a.total_questions = Cardinality(qs)

\* C5: startAttempt is refused with "Quiz has not started yet" only while
\* the current time is earlier than the quiz's start time, gets past the
\* time check only at or after the start time, and creates an attempt for a
\* (quiz, student) pair at most once.
C5_StartGatedByStartTime ==
    /\ (resp.op = "startAttempt" /\ resp.error = "Quiz has not started yet")
          => now < startUtc[resp.quiz_id]
    /\ \A x \in Live :
          (x.op = "startAttempt" /\ x.pc = "insert"
              /\ \E z \in quizzes : z.id = x.quiz_id)
          => now >= startUtc[x.quiz_id]
    /\ \A p \in Pairs : Cardinality(RowsOf(p[1], p[2])) < 2

\* A step of a startAttempt request.
StartStep ==
    \/ \E x \in Live : x.op = "startAttempt" /\ CopiesIn(x, req') < CopiesIn(x, req)
    \/ \E p \in Pairs : Admits("startAttempt", p[1], p[2])

\* C6: when startAttempt's existence check finds any Attempt row of the pair,
\* finished or not, the request ends with 400 "Quiz already attempted" and
\* no attempt is created; no step of a startAttempt request changes or
\* removes an existing attempt.
C6_StartConflictOnAnyAttempt ==
    [][/\ \A x \in Live :
             (/\ x.op = "startAttempt" /\ x.pc = "attempt"
              /\ RowsOf(x.quiz_id, x.user) # {}
              /\ (Retires(x) \/ MovesTo(x, "time")))
             => /\ resp'.status = 400
                /\ resp'.error = "Quiz already attempted"
                /\ resp'.user = x.user /\ resp'.quiz_id = x.quiz_id
                /\ Retires(x)
                /\ attempts' = attempts
       /\ StartStep => \A a \in attempts : a \in attempts']_vars

\* C6 witness: a start was refused as already attempted while the pair's
\* attempt was finished.
C6_Witness ==
    /\ resp.op = "startAttempt" /\ resp.error = "Quiz already attempted"
    /\ \E a \in RowsOf(resp.quiz_id, resp.user) : a.finished

\* The lifecycle state of a (quiz, student) pair, read off the attempt table.
PairState(rows, q, u) ==
    LET mine == {a \in rows : a.quiz_id = q /\ a.student_id = u}
    IN IF mine = {} THEN "NotStarted"
       ELSE IF \E a \in mine : a.finished THEN "Finished"
       ELSE "InProgress"

StartInserts(q, u) ==
    \E x \in Live : /\ x.op = "startAttempt" /\ x.pc = "insert"
                    /\ x.quiz_id = q /\ x.user = u
                    /\ CopiesIn(x, req') < CopiesIn(x, req)
\* A submitAttempt commits its update of a row of the pair.  The update is
\* by primary key, and ids are reused, so the row may belong to another pair
\* than the one the request looked up.
SubmitWrites(q, u) ==
    \E x \in Live : /\ x.op = "submitAttempt" /\ Retires(x)
                    /\ resp'.status = 200
                    /\ \E a \in RowsOf(q, u) : a.id = x.attempt
\* A deleteQuiz commits a cascade that holds the id of a row of the pair.
\* The cascade deletes by primary key, and ids are reused, so the row may
\* belong to another quiz than the one being deleted.
DeleteRemoves(q, u) ==
    \E x \in Live : /\ x.op = "deleteQuiz" /\ Retires(x)
                    /\ \E a \in RowsOf(q, u) : a.id \in x.ka

\* C7 as stated: every pair only ever moves NotStarted -> InProgress and
\* InProgress -> Finished; Finished is never left.
C7_OnlyForwardTransitions ==
    [][\A p \in Pairs :
          LET s == PairState(attempts, p[1], p[2])
              t == PairState(attempts', p[1], p[2])
          IN \/ s = t
             \/ s = "NotStarted" /\ t = "InProgress"
             \/ s = "InProgress" /\ t = "Finished"]_vars

\* C7 amended: a pair moves NotStarted -> InProgress when a startAttempt
\* inserts its row and InProgress -> Finished when a submitAttempt commits
\* its update of a row of the pair; every other change of a pair's state
\* happens in the commit of a deleteQuiz whose cascade removes a row of the
\* pair, and takes the pair back from Finished or InProgress.
C7_ForwardUnlessQuizDeleted ==
    [][\A p \in Pairs :
          LET s == PairState(attempts, p[1], p[2])
              t == PairState(attempts', p[1], p[2])
          IN \/ s = t
             \/ s = "NotStarted" /\ t = "InProgress" /\ StartInserts(p[1], p[2])
             \/ s = "InProgress" /\ t = "Finished" /\ SubmitWrites(p[1], p[2])
             \/ DeleteRemoves(p[1], p[2]) /\ t # "Finished" /\ s # "NotStarted"]_vars

\* C7 witness: a deleteQuiz is about to commit a cascade that holds the
\* finished attempt of a pair.
C7_Witness ==
    \E x \in Live : /\ x.op = "deleteQuiz"
                    /\ \E a \in attempts : a.id \in x.ka /\ a.finished
                                            /\ a.quiz_id = x.quiz_id

FieldsAgree(rows) ==
    \A a \in rows :
        /\ a.finished <=> (a.score # NULL /\ a.total_questions # NULL
                              /\ a.finished_at # NULL)
        /\ ~a.finished => (a.score = NULL /\ a.total_questions = NULL
                              /\ a.finished_at = NULL)

\* C8: for every attempt, finished holds exactly when score, total and finish
\* timestamp are all set, an unfinished attempt has none of them, and once
\* finished the row's four fields never change again.
C8_GradedOnce ==
    [][/\ FieldsAgree(attempts')
       /\ \A a \in attempts : a.finished =>
             \A b \in attempts' : b.id = a.id => b = a]_vars

\* C9: once deleteQuiz(q) has succeeded, no question, attempt or proctor-log
\* row with quiz id q exists, then or later, whatever students do on q.
C9_NothingLeftAfterDelete ==
    \A q \in deleted :
        /\ \A x \in questions : x.quiz_id # q
        /\ \A a \in attempts : a.quiz_id # q
        /\ \A l \in logs : l.quiz_id # q

\* C10: the questions in a successful startAttempt response carry no
\* correctAnswer field; the questions in a getQuizDetail response to the
\* owning teacher are exactly the quiz's questions, each with its correct key.
C10_AnswerKeyOnlyInTeacherView ==
    /\ (resp.op = "startAttempt" /\ resp.status = 201) =>
          /\ {v.id : v \in resp.body.questions}
                = {x.id : x \in QuestionsOf(resp.quiz_id)}
          /\ \A v \in resp.body.questions : "correctAnswer" \notin DOMAIN v
    /\ (/\ resp.op = "getQuizDetail" /\ resp.status = 200
        /\ \E z \in quizzes : z.id = resp.quiz_id /\ z.teacher_id = resp.user) =>
          /\ {v.id : v \in resp.body.questions}
                = {x.id : x \in QuestionsOf(resp.quiz_id)}
          /\ \A v \in resp.body.questions :
                /\ "correctAnswer" \in DOMAIN v
                /\ \E x \in QuestionsOf(resp.quiz_id) :
                      x.id = v.id /\ x.correct_answer = v.correctAnswer

\* C10 witness: a student was handed the questions of a quiz that has some.
C10_Witness ==
    /\ resp.op = "startAttempt" /\ resp.status = 201
    /\ resp.body.questions # {}

\* C11: no response to a student, whatever the operation and whatever the
\* state of the student's attempt, carries the correct key of a question.
C11_NoAnswerKeyToStudents ==
    resp.user \in Students =>
        \A v \in resp.body.questions : "correctAnswer" \notin DOMAIN v

\* The cells that are one of A-D once upper-cased.
ValidCells == {"A", "B", "C", "D", "a", "b", "c", "d"}
RowOk(row) == row.columns /\ row.correct_answer \in ValidCells
FileErrors ==
    {"No file part", "Invalid file type. Must be .csv",
     "Error processing CSV: not UTF-8"}

\* C12: a bulkImport whose rows include one with a missing column or a
\* correct_answer outside A-D (case-insensitive) fails and leaves the
\* question table as it was; one whose rows are all valid adds exactly one
\* question per row to the quiz, keys upper-cased, and reports that count.
C12_BulkImportAllOrNothing ==
    [][\A x \in Live :
          (x.op = "bulkImport" /\ Retires(x)) =>
              LET rows == resp'.body.rows
                  bad == \E i \in 1..Len(rows) : ~RowOk(rows[i])
                  new == questions' \ questions
              IN /\ resp'.status \in {201, 400}
                 /\ bad => resp'.status = 400
                 /\ resp'.status = 400 => questions' = questions
                 /\ (~bad /\ resp'.error \notin FileErrors) => resp'.status = 201
                 /\ resp'.status = 201 =>
                       /\ questions \subseteq questions'
                       /\ Cardinality(new) = Len(rows)
                       /\ resp'.body.addedCount = Len(rows)
                       /\ \A y \in new : /\ y.quiz_id = x.quiz_id
                                         /\ y.correct_answer \in {"A", "B", "C", "D"}]_vars

\* C12 witness: an import of a valid row followed by a row with
\* correct_answer "E" has failed, into a quiz that already has a question.
C12_Witness ==
    /\ resp.op = "bulkImport" /\ resp.status = 400
    /\ Len(resp.body.rows) = 2
    /\ RowOk(resp.body.rows[1])
    /\ resp.body.rows[2].columns /\ resp.body.rows[2].correct_answer = "E"
    /\ QuestionsOf(resp.quiz_id) # {}

\* C13: recordEvent by a student with a well-formed payload answers 200 in
\* every attempt state of the pair, appends exactly one log entry for
\* (quiz, student), and changes no attempt and no existing log entry.
C13_RecordEventFrame ==
    [][(/\ resp = NoResp /\ resp'.op = "recordEvent"
        /\ resp'.user \in Students /\ resp'.body.eventOk) =>
           /\ resp'.status = 200
           /\ attempts' = attempts
           /\ logs \subseteq logs'
           /\ Cardinality(logs' \ logs) = 1
           /\ \A l \in logs' \ logs : /\ l.quiz_id = resp'.quiz_id
                                      /\ l.student_id = resp'.user]_vars

\* C13 witness: an event was recorded for a pair with no Attempt row, next
\* to an older log entry.
C13_Witness ==
    /\ resp.op = "recordEvent" /\ resp.status = 200
    /\ Cardinality(logs) = 2
    /\ PairState(attempts, resp.quiz_id, resp.user) = "NotStarted"

\* C14: every stored question's correct key is one of A, B, C, D.
C14_QuestionKeyValid ==
    \A x \in questions : x.correct_answer \in {"A", "B", "C", "D"}

\* C15: every stored quiz has a duration greater than zero.
C15_DurationPositive ==
    \A z \in quizzes : z.duration_minutes > 0

\* The request whose step this is: the one retired or advanced.
Acts(x) == CopiesIn(x, req') < CopiesIn(x, req)

\* C16: a quiz is deleted only by a step of a request of its owner, the
\* question set of a quiz changes only by a step of a request of its owner
\* (or by the delete of the quiz), and addQuestion, bulkImport and
\* deleteQuiz by anyone else answer 403 or 404 and change nothing.
C16_OnlyOwnerMutates ==
    [][/\ \A z \in quizzes :
            /\ z \notin quizzes' =>
                  \E x \in Live : /\ x.op = "deleteQuiz" /\ Acts(x)
                                  /\ x.user = z.teacher_id
            /\ QuestionsOf(z.id)' # QuestionsOf(z.id) =>
                  \E x \in Live : /\ x.op \in {"deleteQuiz", "addQuestion",
                                               "bulkImport"}
                                  /\ Acts(x)
                                  /\ x.user = z.teacher_id
       /\ (/\ resp = NoResp
           /\ resp'.op \in {"deleteQuiz", "addQuestion", "bulkImport"}
           /\ req' = req
           /\ \E z \in quizzes : z.id = resp'.quiz_id
                                    /\ z.teacher_id # resp'.user) =>
              /\ resp'.status \in {403, 404}
              /\ UNCHANGED db]_vars

\* C17: a step that answers a mutating request with a failure leaves the
\* four tables as they were, and a startAttempt that answers with a failure
\* has left no attempt row of its own behind.
C17_FailureLeavesNoChange ==
    [][(resp = NoResp /\ resp'.status >= 400) =>
          /\ UNCHANGED <<quizzes, questions, attempts, logs>>
          /\ \A x \in Live :
                (x.op = "startAttempt" /\ Acts(x)) =>
                    \A a \in attempts' :
                        ~(a.id = x.attempt /\ a.quiz_id = x.quiz_id
                             /\ a.student_id = x.user)]_vars

C19_NoOrphans ==
    /\ \A x \in questions : \E z \in quizzes : z.id = x.quiz_id
    /\ \A a \in attempts : \E z \in quizzes : z.id = a.quiz_id
    /\ \A l \in logs : \E z \in quizzes : z.id = l.quiz_id

\* C20: a submitAttempt for a pair that is InProgress is admitted whatever
\* the time, and an admitted submitAttempt whose attempt row has not been
\* destroyed answers 200 and finishes the row; under fair scheduling, with
\* the student submitting again and again, a pair that is InProgress
\* becomes Finished or loses its attempts to a deleteQuiz.
C20_SubmitHasNoDeadline ==
    /\ [][/\ \A p \in Pairs :
               (/\ PairState(attempts, p[1], p[2]) = "InProgress"
                /\ resp = NoResp
                /\ resp'.op = "submitAttempt" /\ resp'.quiz_id = p[1]
                /\ resp'.user = p[2])
               => req' # req
          /\ \A x \in Live :
               (/\ x.op = "submitAttempt" /\ Acts(x)
                /\ \E a \in attempts : a.id = x.attempt)
               => /\ resp'.status = 200
                  /\ \A a \in attempts' :
                        a.id = x.attempt =>
                            /\ a.finished
                            /\ PairState(attempts', a.quiz_id, a.student_id)
                                  = "Finished"]_vars
    /\ \A p \in Pairs :
          (PairState(attempts, p[1], p[2]) = "InProgress")
              ~> (PairState(attempts, p[1], p[2]) # "InProgress")

\* C20 witness: an attempt was finished after the quiz's start time plus
\* its duration.
C20_Witness ==
    \E a \in attempts, z \in quizzes :
        /\ z.id = a.quiz_id /\ a.finished
        /\ z.duration_minutes > 0
        /\ a.finished_at > z.start_time + z.duration_minutes
====
